---- MODULE Spec2Model ----
(***************************************************************************)
(* Model of gatsby-plugin-page-creator (src/gatsby-node.ts):               *)
(*   createPagesStatefully  - initial page scan and the add/remove watch   *)
(*                            handlers over knownFiles and the page set;   *)
(*   onPreInit              - the startup scan filling knownCollections;   *)
(*   setFieldsOnGraphQLNodeType / gatsbyPath resolve.                      *)
(***************************************************************************)
EXTENDS Integers, Sequences, FiniteSets, TLC

\* ------------------------------------------------------------------ bounds
MaxEvents == 3     \* watch events the file watcher emits in one session
MaxQueue == 2      \* undelivered watch events per path
MaxRecords == 2    \* data records a template file is expanded over
MaxResolves == 3   \* gatsbyPath resolutions and node updates in one session

\* ------------------------------------------------------- the file universe
PagesDirectory == "pages"
OtherDirectory == "other"

\* program.extensions, with the leading dot sliced off (line 48)
exts == {"js", "tsx"}

AllFiles == {"about.js", "about.tsx", "{Post.slug}.js", "notes.md"}

Ext(f) ==
    CASE f = "about.js" -> "js"
      [] f = "about.tsx" -> "tsx"
      [] f = "{Post.slug}.js" -> "js"
      [] f = "notes.md" -> "md"

\* pagesGlob = **/*.{exts}: the files the scan and the watcher report
pagesGlob(f) == Ext(f) \in exts

Files == {f \in AllFiles : pagesGlob(f)}

\* a file whose name carries a bracketed {Model.field} segment
IsTemplate(f) == f = "{Post.slug}.js"

\* createPath(file): the route of a file, extension dropped
Route(b, i) == [base |-> b, rec |-> i]

createPath(f) ==
    CASE f = "about.js" -> Route("/about", 0)
      [] f = "about.tsx" -> Route("/about", 0)
      [] f = "{Post.slug}.js" -> Route("/{Post.slug}", 0)
      [] f = "notes.md" -> Route("/notes", 0)

\* systemPath.join(pagesDirectory, path): the owning-file identity of a page
componentPath(f) == [dir |-> PagesDirectory, file |-> f]

\* the data records a template file is expanded over, and the route derived
\* for each of them
Records == 1..MaxRecords
RecordRoute(i) == Route("/post", i)

\* the record sets a collection query can return to createPage
RecordSets == (SUBSET Records) \ {{}}

Page(r, c) == [path |-> r, component |-> c]

\* the pages createPage makes for a file: one for a plain file, one per data
\* record (the routes rs) for a template file
PagesFor(f, rs) ==
    IF IsTemplate(f) THEN {Page(RecordRoute(i), componentPath(f)) : i \in rs}
    ELSE {Page(createPath(f), componentPath(f))}

\* deletePage({path, component}): removes the page of that identity
deletePage(pgs, arg) == pgs \ {arg}

\* the page set after one deletePage call for each of the arguments
RECURSIVE DeleteAll(_, _)
DeleteAll(pgs, args) ==
    IF args = {} THEN pgs
    ELSE LET a == CHOOSE x \in args : TRUE
         IN DeleteAll(deletePage(pgs, a), args \ {a})

\* a page another plugin made, at the route and file name of about.js
ForeignPage == Page(Route("/about", 0), [dir |-> OtherDirectory, file |-> "about.js"])

VARIABLES
    opts,        \* plugin options: path given, path on disk, pathCheck
    fs,          \* files that exist under the pages directory
    pc,          \* position of createPagesStatefully
    files,       \* the initial enumeration (line 79)
    scanned,     \* how many of them files.forEach has passed to createPage
    pages,       \* store.getState().pages
    knownFiles,  \* the knownFiles set (line 84)
    queue,       \* per path: watch events emitted and not yet handled
    emitted,     \* watch events emitted so far
    creates,     \* per path: createPage calls since its last removed event
    last,        \* the handler that ran last, and what it did
    prev,        \* per path: the kind of the watch event handled last for it
    panicked,    \* reporter.panic was called
    errors,      \* ids reported to the diagnostics sink
    globCalls,   \* file enumerations made
    watchers,    \* watchDirectory calls made
    doneCalls,   \* doneCb calls made
    queries,     \* per template file: the query its source text carries
    pre,         \* position of onPreInit
    pending,     \* template files whose registration has not completed
    knownCollections, \* the knownCollections map (line 25)
    regLog,      \* template files in the order their knownCollections.set ran
    fieldsCall,  \* the setFieldsOnGraphQLNodeType call made last, and its result
    exposed,     \* per node type: what setFieldsOnGraphQLNodeType returned
    nodes,       \* the node store behind getNode; resolve's source records
    resolved,    \* the gatsbyPath resolution that ran last
    seen,        \* inputs and result of every resolution so far
    steps        \* resolutions and node updates so far

syncVars == <<opts, fs, pc, files, scanned, pages, knownFiles, queue, emitted,
              creates, last, prev, panicked, errors, globCalls, watchers,
              doneCalls>>

\* the page engine's state other than the diagnostics
engineVars == <<opts, fs, pc, files, scanned, pages, knownFiles, queue, emitted,
                creates, last, prev, globCalls, watchers, doneCalls>>

collVars == <<queries, pre, pending, knownCollections, regLog, fieldsCall,
              exposed, nodes, resolved, seen, steps>>

vars == <<syncVars, collVars>>

NoEvent == [kind |-> "none", path |-> "", creates |-> 0, deletes |-> 0,
            raised |-> FALSE, known |-> FALSE]

\* what a handler did: createPage and deletePage calls made, whether it
\* raised, whether its path was in knownFiles when it started
Handled(k, p, c, d, r) ==
    [kind |-> k, path |-> p, creates |-> c, deletes |-> d, raised |-> r,
     known |-> p \in knownFiles]

\* reporter.panic(id): reports the error, and the process exits
panic(id) ==
    /\ panicked' = TRUE
    /\ errors' = errors \cup {id}

\* nothing runs in a session that panicked
Alive == ~panicked

\* ---------------------------------------------------------------- options
Options ==
    {o \in [path : BOOLEAN, exists : BOOLEAN, pathCheck : BOOLEAN] :
        ~o.path => ~o.exists}

InitSync ==
    /\ opts \in Options
    /\ fs \in (IF opts.exists THEN SUBSET AllFiles ELSE {{}})
    /\ pc = "start"
    /\ files = <<>>
    /\ scanned = 0
    /\ pages = {ForeignPage}
    /\ knownFiles = {}
    /\ queue = [p \in Files |-> <<>>]
    /\ emitted = 0
    /\ creates = [p \in Files |-> 0]
    /\ last = NoEvent
    /\ prev = [p \in Files |-> "none"]
    /\ panicked = FALSE
    /\ errors = {}
    /\ globCalls = 0
    /\ watchers = 0
    /\ doneCalls = 0

\* a sequence listing the members of a set, in the enumeration's order
RECURSIVE SeqOf(_)
SeqOf(S) ==
    IF S = {} THEN <<>>
    ELSE LET x == CHOOSE y \in S : TRUE IN <<x>> \o SeqOf(S \ {x})

Range(q) == {q[i] : i \in 1..Len(q)}

\* glob(pagesGlob, {cwd: pagesPath}): the matching files, none when the
\* directory is not there
glob(disk) == SeqOf({f \in disk : pagesGlob(f)})

ConfigErrorNoExistsCheck(o) == ~o.path

\* line 50: !pagesPath ; line 62: pathCheck && !existsSync(pagesPath)
ConfigError(o) == (~o.path) \/ (o.pathCheck /\ ~o.exists)

OuterCatchSwallows == UNCHANGED <<panicked, errors>>

\* lines 134-141: the catch around the whole of createPagesStatefully
OuterCatch == panic("1")

\* lines 44-79: the option checks, then the initial enumeration
CheckOptions ==
    /\ pc = "start" /\ Alive
    /\ IF ConfigError(opts)
       THEN /\ panic("1")
            /\ UNCHANGED <<pc, files, globCalls>>
       ELSE /\ globCalls' = globCalls + 1
            /\ \E ok \in BOOLEAN :
                 IF ok
                 THEN /\ pc' = "scanning"
                      /\ files' = glob(fs)
                      /\ UNCHANGED <<panicked, errors>>
                 ELSE /\ OuterCatch
                      /\ UNCHANGED <<pc, files>>
    /\ UNCHANGED <<opts, fs, scanned, pages, knownFiles, queue, emitted,
                   creates, last, watchers, doneCalls, collVars, prev>>

\* lines 80-82: one iteration of files.forEach(createPage); a createPage that
\* throws reaches the catch of line 134
ScanFile ==
    /\ pc = "scanning" /\ Alive
    /\ scanned < Len(files)
    /\ LET f == files[scanned + 1] IN
       /\ creates' = [creates EXCEPT ![f] = @ + 1]
       /\ scanned' = scanned + 1
       /\ \E ok \in BOOLEAN :
            IF ok
            THEN /\ \E rs \in RecordSets :
                      pages' = pages \cup PagesFor(f, rs)
                 /\ last' = Handled("scan", f, 1, 0, FALSE)
                 /\ UNCHANGED <<panicked, errors>>
            ELSE /\ OuterCatch
                 /\ last' = Handled("scan", f, 1, 0, TRUE)
                 /\ UNCHANGED <<pages>>
    /\ UNCHANGED <<opts, fs, pc, files, knownFiles, queue, emitted, watchers,
                   doneCalls, globCalls, collVars, prev>>

ScanCompleteNotAwaited(list, n) == TRUE

\* lines 80-84: files.forEach runs synchronously to its end before line 84
ScanComplete(list, n) == n = Len(list)

\* lines 84-86: knownFiles = new Set(files), then watchDirectory is called
StartWatch ==
    /\ pc = "scanning" /\ Alive
    /\ ScanComplete(files, scanned)
    /\ knownFiles' = Range(files)
    /\ watchers' = watchers + 1
    /\ pc' = "watching"
    /\ UNCHANGED <<opts, fs, files, scanned, pages, queue, emitted, creates,
                   last, panicked, errors, globCalls, doneCalls, collVars, prev>>

\* line 133: the watcher is ready, doneCb(null, null)
Ready ==
    /\ pc = "watching" /\ Alive
    /\ pc' = "ready"
    /\ doneCalls' = doneCalls + 1
    /\ UNCHANGED <<opts, fs, files, scanned, pages, knownFiles, queue, emitted,
                   creates, last, panicked, errors, globCalls, watchers, collVars, prev>>

\* the watcher is running and its callbacks can be called
Watching == pc \in {"watching", "ready"} /\ Alive

\* the watcher queues an event for a path
Emit(p, k) ==
    /\ emitted < MaxEvents
    /\ Len(queue[p]) < MaxQueue
    /\ queue' = [queue EXCEPT ![p] = Append(@, k)]
    /\ emitted' = emitted + 1

\* a file appears on disk; the watcher reports it when it matches the glob
FsCreate(f) ==
    /\ Watching /\ opts.exists
    /\ f \notin fs
    /\ fs' = fs \cup {f}
    /\ IF pagesGlob(f) THEN Emit(f, "added") ELSE UNCHANGED <<queue, emitted>>
    /\ UNCHANGED <<opts, pc, files, scanned, pages, knownFiles, creates, last,
                   panicked, errors, globCalls, watchers, doneCalls, collVars, prev>>

\* a file disappears from disk
FsDelete(f) ==
    /\ Watching
    /\ f \in fs
    /\ fs' = fs \ {f}
    /\ IF pagesGlob(f) THEN Emit(f, "removed") ELSE UNCHANGED <<queue, emitted>>
    /\ UNCHANGED <<opts, pc, files, scanned, pages, knownFiles, creates, last,
                   panicked, errors, globCalls, watchers, doneCalls, collVars, prev>>

\* the watcher repeats itself: an added event for a file that exists (as for
\* every file present when the watcher starts), a removed one for a file
\* that does not
Duplicate(p) ==
    /\ Watching
    /\ Emit(p, IF p \in fs THEN "added" ELSE "removed")
    /\ UNCHANGED <<opts, fs, pc, files, scanned, pages, knownFiles, creates,
                   last, panicked, errors, globCalls, watchers, doneCalls, collVars, prev>>

IsKnownNever(known, p) == FALSE

\* line 91: knownFiles.has(addedPath)
IsKnown(known, p) == p \in known

AddedCatchSwallows == UNCHANGED <<panicked, errors>>

\* lines 102-109: the catch of the added callback
AddedCatch == panic("1")

KnownAddedFirst(known, p) == known \cup {p}

\* lines 92-100: createPage throws before knownFiles.add is reached
KnownAfterFailedCreate(known, p) == known

\* lines 89-110: the added callback
AddedHandler(p) ==
    /\ Watching
    /\ queue[p] # <<>> /\ Head(queue[p]) = "added"
    /\ queue' = [queue EXCEPT ![p] = Tail(@)]
    /\ prev' = [prev EXCEPT ![p] = "added"]
    /\ IF ~IsKnown(knownFiles, p)
       THEN /\ creates' = [creates EXCEPT ![p] = @ + 1]
            /\ \E ok \in BOOLEAN :
                 IF ok
                 THEN /\ \E rs \in RecordSets :
                           pages' = pages \cup PagesFor(p, rs)
                      /\ knownFiles' = knownFiles \cup {p}
                      /\ last' = Handled("added", p, 1, 0, FALSE)
                      /\ UNCHANGED <<panicked, errors>>
                 ELSE /\ AddedCatch
                      /\ last' = Handled("added", p, 1, 0, TRUE)
                      /\ knownFiles' = KnownAfterFailedCreate(knownFiles, p)
                      /\ UNCHANGED pages
       ELSE /\ last' = Handled("added", p, 0, 0, FALSE)
            /\ UNCHANGED <<creates, pages, knownFiles, panicked, errors>>
    /\ UNCHANGED <<opts, fs, pc, files, scanned, emitted, globCalls, watchers,
                   doneCalls, collVars>>

RemovedDeletesByRoute(pgs, p) ==
    {[page |-> pg, arg |-> Page(createPath(p), pg.component)] :
        pg \in {x \in pgs : x.path = createPath(p)}}

\* lines 115-122: the deletePage calls of the removed callback, one for each
\* page whose component is the removed file, each with the route computed
\* from the removed path
RemovedDeletes(pgs, p) ==
    {[page |-> pg, arg |-> Page(createPath(p), componentPath(p))] :
        pg \in {x \in pgs : x.component = componentPath(p)}}

KnownAfterRemoveKeeps(known, p) == known

\* line 123: knownFiles.delete(removedPath)
KnownAfterRemove(known, p) == known \ {p}

\* lines 124-131: the catch of the removed callback
RemovedCatch == panic("1")

\* lines 111-132: the removed callback
RemovedHandler(p) ==
    /\ Watching
    /\ queue[p] # <<>> /\ Head(queue[p]) = "removed"
    /\ queue' = [queue EXCEPT ![p] = Tail(@)]
    /\ prev' = [prev EXCEPT ![p] = "removed"]
    /\ LET calls == RemovedDeletes(pages, p)
           args == {c.arg : c \in calls}
           n == Cardinality(calls)
       IN \E ok \in BOOLEAN :
            IF ok \/ n = 0
            THEN /\ pages' = DeleteAll(pages, args)
                 /\ knownFiles' = KnownAfterRemove(knownFiles, p)
                 /\ creates' = [creates EXCEPT ![p] = 0]
                 /\ last' = Handled("removed", p, 0, n, FALSE)
                 /\ UNCHANGED <<panicked, errors>>
            ELSE \* deletePage throws at its k-th call: the calls before it
                 \* took effect, knownFiles.delete is not reached
                 /\ \E k \in 1..n :
                      /\ pages' = (IF k > 1 THEN DeleteAll(pages, args) ELSE pages)
                      /\ last' = Handled("removed", p, 0, k, TRUE)
                 /\ RemovedCatch
                 /\ UNCHANGED <<knownFiles, creates>>
    /\ UNCHANGED <<opts, fs, pc, files, scanned, emitted, globCalls, watchers,
                   doneCalls, collVars>>

\* ------------------------------------------------- the collection registry
\* files matched by the glob of line 247, **/\{*\}**
TemplateFiles == {"{Post.slug}.js", "{Post.title}.js"}

\* the model a template file names in its brackets
ModelOf(f) ==
    CASE f = "{Post.slug}.js" -> "Post"
      [] f = "{Post.title}.js" -> "Post"

Types == {"Post", "Author"}

\* line 152: `all${type.name}`
collectionQuery(t) ==
    CASE t = "Post" -> "allPost"
      [] t = "Author" -> "allAuthor"

Keys == {collectionQuery(t) : t \in Types}

\* what the source text of a template file holds:
\*   none     - no collection query at all
\*   badshape - a query that does not use the collection fragment
\*   valid    - a query of the required shape
\*   throws   - the file cannot be resolved or read
QueryKinds == {"none", "badshape", "valid", "throws"}

NoQuery == [root |-> "", fragment |-> FALSE]
NoFile == ""

\* the query string of a file: its first selection and whether it spreads
\* the collection fragment
QueryText(f, kind) ==
    [root |-> collectionQuery(ModelOf(f)), fragment |-> kind = "valid"]

ExtractWithoutValidation(f, kind) ==
    IF kind = "none" THEN [query |-> NoQuery, error |-> ""]
    ELSE [query |-> QueryText(f, kind), error |-> ""]

\* collectionExtractQueryString(absolutePath, reporter): the query string of
\* the file, or null when there is none or when it fails the shape check,
\* which reports error 2
collectionExtractQueryString(f, kind) ==
    IF kind = "none" THEN [query |-> NoQuery, error |-> ""]
    ELSE IF kind = "badshape" THEN [query |-> NoQuery, error |-> "2"]
    ELSE [query |-> QueryText(f, kind), error |-> ""]

\* line 268: ast.definitions[0].selectionSet.selections[0].name.value
FirstSelection(q) == q.root

\* ------------------------------------------------------------ data records
NodeIds == {1, 2}
DanglingId == CHOOSE j \in 1..3 : j \notin NodeIds

NoParent == [kind |-> "none", ref |-> 0]
ParentId(j) == [kind |-> "id", ref |-> j]          \* a string identifier
ParentNode(j) == [kind |-> "node", ref |-> j]      \* a realized record
Undefined == [kind |-> "undefined", ref |-> 0]

Slugs == {"", "hello", "world"}                     \* "" : the field is absent

\* getNode(id)
getNode(store, j) == IF j \in DOMAIN store THEN ParentNode(j) ELSE Undefined

\* file paths passed to gatsbyPath, and the template each one parses to
FilePaths == {"/posts/{Post.slug}", "/{Post.parent__slug}", "src/pages/{Post.slug}.js"}

Literal(t) == [kind |-> "literal", text |-> t, viaParent |-> FALSE, required |-> FALSE]
Field(parent, req) == [kind |-> "field", text |-> "slug", viaParent |-> parent, required |-> req]

Template(fp) ==
    CASE fp = "/posts/{Post.slug}" -> <<Literal("posts"), Field(FALSE, FALSE)>>
      [] fp = "/{Post.parent__slug}" -> <<Field(TRUE, TRUE)>>
      [] fp = "src/pages/{Post.slug}.js" -> <<Literal("src"), Literal("pages"), Field(FALSE, FALSE)>>

\* validatePathQuery(filePath, extensions): throws unless the path is rooted
\* and carries no directory prefix or extension
validatePathQuery(fp) == fp # "src/pages/{Post.slug}.js"

\* the value a field segment resolves to, "" when it cannot be reached
SegmentValue(store, copy, seg) ==
    IF ~seg.viaParent THEN copy.slug
    ELSE IF copy.parent.kind = "node" THEN store[copy.parent.ref].slug
    ELSE ""

\* derivePath(filePath, sourceCopy, reporter): the route, segment by segment
RECURSIVE deriveSegments(_, _, _)
deriveSegments(store, copy, segs) ==
    IF segs = <<>> THEN [ok |-> TRUE, route |-> <<>>]
    ELSE LET seg == Head(segs)
             rest == deriveSegments(store, copy, Tail(segs))
             v == IF seg.kind = "literal" THEN seg.text
                  ELSE SegmentValue(store, copy, seg)
         IN IF ~rest.ok THEN rest
            ELSE IF v = "" THEN
                 (IF seg.required THEN [ok |-> FALSE, route |-> <<>>] ELSE rest)
            ELSE [ok |-> TRUE, route |-> <<v>> \o rest.route]

derivePath(store, fp, copy) == deriveSegments(store, copy, Template(fp))

NoResolve == [at |-> 0, src |-> 0, file |-> "", ok |-> FALSE, route |-> <<>>,
              lookups |-> 0, validated |-> FALSE, derived |-> FALSE,
              error |-> "", before |-> NoParent, passed |-> NoParent]

\* no setFieldsOnGraphQLNodeType call yet
NoFields == [type |-> "", gatsbyPath |-> FALSE]

InitColl ==
    /\ queries \in [TemplateFiles -> QueryKinds]
    /\ pre = "start"
    /\ pending = {}
    /\ knownCollections = [k \in Keys |-> NoFile]
    /\ regLog = <<>>
    /\ fieldsCall = NoFields
    /\ exposed = [t \in Types |-> FALSE]
    /\ nodes \in {[i \in NodeIds |-> IF i = 1 THEN [parent |-> pa, slug |-> "hello"]
                                    ELSE [parent |-> NoParent, slug |-> "world"]] :
                    pa \in {NoParent, ParentId(2), ParentId(DanglingId), ParentNode(2)}}
    /\ resolved = NoResolve
    /\ seen = {}
    /\ steps = 0

\* lines 246-253: the template scan starts a registration for every file
PreInitStart ==
    /\ pre = "start" /\ Alive
    /\ pre' = "running"
    /\ pending' = TemplateFiles
    /\ UNCHANGED <<engineVars, panicked, errors, queries, knownCollections,
                   regLog, fieldsCall, exposed, nodes, resolved, seen, steps>>

\* line 264: if (!queryString) return
Skips(q) == q = NoQuery

PreInitCatchSwallows == UNCHANGED <<panicked, errors>>

\* lines 273-279: the catch of onPreInit
PreInitCatch == panic("1")

SetIfAbsent(map, k, f) == IF map[k] = NoFile THEN [map EXCEPT ![k] = f] ELSE map

\* lines 266-270: knownCollections.set(key, relativePath)
SetCollection(map, k, f) == [map EXCEPT ![k] = f]

\* lines 256-271: the registration of one template file runs to its end
RegisterFile(f) ==
    /\ pre # "start" /\ Alive
    /\ f \in pending
    /\ pending' = pending \ {f}
    /\ IF queries[f] = "throws"
       THEN /\ PreInitCatch
            /\ UNCHANGED <<knownCollections, regLog>>
       ELSE LET r == collectionExtractQueryString(f, queries[f]) IN
            /\ errors' = (IF r.error = "" THEN errors ELSE errors \cup {r.error})
            /\ UNCHANGED panicked
            /\ IF Skips(r.query)
               THEN UNCHANGED <<knownCollections, regLog>>
               ELSE /\ knownCollections' =
                        SetCollection(knownCollections, FirstSelection(r.query), f)
                    /\ regLog' = Append(regLog, f)
    /\ UNCHANGED <<engineVars, queries, pre, fieldsCall, exposed, nodes, resolved,
                   seen, steps>>

AllSettledNotAwaited(pend) == TRUE

\* line 255: await Promise.all(...), every registration has completed
AllSettled(pend) == pend = {}

\* line 272: Promise.all resolves, onPreInit returns
PreInitDone ==
    /\ pre = "running" /\ Alive
    /\ AllSettled(pending)
    /\ pre' = "done"
    /\ UNCHANGED <<engineVars, panicked, errors, queries, pending,
                   knownCollections, regLog, fieldsCall, exposed, nodes,
                   resolved, seen, steps>>

HasAnyCollection(map, t) == \E k \in Keys : map[k] # NoFile

\* line 153: knownCollections.has(collectionQuery)
HasCollection(map, t) == map[collectionQuery(t)] # NoFile

\* lines 150-186: setFieldsOnGraphQLNodeType, gatsbyPath or no field
setFieldsOnGraphQLNodeType(t) ==
    /\ Alive
    /\ exposed' = [exposed EXCEPT ![t] = HasCollection(knownCollections, t)]
    /\ fieldsCall' = [type |-> t, gatsbyPath |-> exposed'[t]]
    /\ exposed'[t] # exposed[t] \/ fieldsCall' # fieldsCall
    /\ UNCHANGED <<engineVars, panicked, errors, queries, pre, pending,
                   knownCollections, regLog, nodes, resolved, seen, steps>>

FollowsAnyParent(source) == source.parent.kind # "none"

\* line 173: typeof source.parent === `string`
FollowsParent(source) == source.parent.kind = "id"

DerivesAlways(valid) == TRUE

\* lines 178-180: validatePathQuery throws before derivePath is reached
DerivesAfter(valid) == valid

SourceAliased(source, copy) == copy

\* line 171: sourceCopy = { ...source }; the write of line 175 goes to the
\* copy and the source record stays as it was
SourceAfterResolve(source, copy) == source

\* lines 162-181: the resolve function of the gatsbyPath field, for a source
\* record of type Post
resolve(i, fp) ==
    /\ Alive /\ exposed["Post"]
    /\ steps < MaxResolves
    /\ steps' = steps + 1
    /\ LET source == nodes[i]
           follows == FollowsParent(source)
           found == IF follows THEN getNode(nodes, source.parent.ref) ELSE source.parent
           sourceCopy == [source EXCEPT !.parent = found]
           valid == validatePathQuery(fp)
           derives == DerivesAfter(valid)
           out == IF derives THEN derivePath(nodes, fp, sourceCopy)
                  ELSE [ok |-> FALSE, route |-> <<>>]
           parentSlug == IF found.kind = "node" THEN nodes[found.ref].slug ELSE ""
       IN /\ nodes' = [nodes EXCEPT ![i] = SourceAfterResolve(source, sourceCopy)]
          /\ resolved' = [at |-> steps', src |-> i, file |-> fp, ok |-> out.ok, route |-> out.route,
                          lookups |-> (IF follows THEN 1 ELSE 0),
                          validated |-> TRUE, derived |-> derives,
                          error |-> (IF ~valid THEN "validatePathQuery"
                                     ELSE IF ~out.ok THEN "derivePath" ELSE ""),
                          before |-> source.parent, passed |-> sourceCopy.parent]
          /\ seen' = seen \cup {[source |-> source, file |-> fp, parent |-> found,
                                 parentSlug |-> parentSlug, out |-> out]}
    /\ UNCHANGED <<engineVars, panicked, errors, queries, pre, pending,
                   knownCollections, regLog, fieldsCall, exposed>>

\* the query engine's store changes a field of a node between resolutions
NodeUpdate(j, v) ==
    /\ Alive
    /\ steps < MaxResolves
    /\ steps' = steps + 1
    /\ nodes[j].slug # v
    /\ nodes' = [nodes EXCEPT ![j].slug = v]
    /\ UNCHANGED <<engineVars, panicked, errors, queries, pre, pending,
                   knownCollections, regLog, fieldsCall, exposed, resolved, seen>>

\* the registry and the resolver at rest, for the page engine on its own
CollIdle ==
    /\ queries = [f \in TemplateFiles |-> "none"]
    /\ pre = "start"
    /\ pending = {}
    /\ knownCollections = [k \in Keys |-> NoFile]
    /\ regLog = <<>>
    /\ fieldsCall = NoFields
    /\ exposed = [t \in Types |-> FALSE]
    /\ nodes = [i \in NodeIds |-> [parent |-> NoParent, slug |-> ""]]
    /\ resolved = NoResolve
    /\ seen = {}
    /\ steps = 0

\* the page engine before createPagesStatefully is called
SyncIdle ==
    /\ opts = [path |-> TRUE, exists |-> TRUE, pathCheck |-> TRUE]
    /\ fs = {}
    /\ pc = "start"
    /\ files = <<>>
    /\ scanned = 0
    /\ pages = {ForeignPage}
    /\ knownFiles = {}
    /\ queue = [p \in Files |-> <<>>]
    /\ emitted = 0
    /\ creates = [p \in Files |-> 0]
    /\ last = NoEvent
    /\ prev = [p \in Files |-> "none"]
    /\ panicked = FALSE
    /\ errors = {}
    /\ globCalls = 0
    /\ watchers = 0
    /\ doneCalls = 0

Next ==
    \/ CheckOptions
    \/ ScanFile
    \/ StartWatch
    \/ Ready
    \/ \E f \in AllFiles : FsCreate(f)
    \/ \E f \in AllFiles : FsDelete(f)
    \/ \E p \in Files : Duplicate(p)
    \/ \E p \in Files : AddedHandler(p)
    \/ \E p \in Files : RemovedHandler(p)

\* createPagesStatefully and its watch callbacks, the registry at rest
Init == InitSync /\ CollIdle

Spec == Init /\ [][Next]_vars

\* the same, with the steps of createPagesStatefully taken when they can be:
\* the awaited glob settles, forEach goes on, and the watcher becomes ready
SpecLive ==
    /\ Init /\ [][Next]_vars
    /\ WF_vars(CheckOptions) /\ WF_vars(ScanFile)
    /\ WF_vars(StartWatch) /\ WF_vars(Ready)

NextColl ==
    \/ PreInitStart
    \/ \E f \in TemplateFiles : RegisterFile(f)
    \/ PreInitDone
    \/ \E t \in Types : setFieldsOnGraphQLNodeType(t)
    \/ \E i \in NodeIds, fp \in FilePaths : resolve(i, fp)
    \/ \E j \in NodeIds, v \in Slugs : NodeUpdate(j, v)

\* onPreInit, setFieldsOnGraphQLNodeType and gatsbyPath, the page engine at rest
InitRegistry == SyncIdle /\ InitColl

SpecColl == InitRegistry /\ [][NextColl]_vars

\* a session in which onPreInit, createPagesStatefully, the watch callbacks,
\* setFieldsOnGraphQLNodeType and gatsbyPath all run, over one file on disk
\* and the two template files
InitSession ==
    /\ InitSync /\ InitColl
    /\ opts = [path |-> TRUE, exists |-> TRUE, pathCheck |-> TRUE]
    /\ fs = {"about.js"}
    /\ queries = [f \in TemplateFiles |->
                    IF f = "{Post.slug}.js" THEN "valid" ELSE "badshape"]
    /\ nodes[1].parent = ParentId(2)

NextSession ==
    \/ CheckOptions
    \/ ScanFile
    \/ StartWatch
    \/ Ready
    \/ \E p \in Files : Duplicate(p)
    \/ \E p \in Files : AddedHandler(p)
    \/ \E p \in Files : RemovedHandler(p)
    \/ PreInitStart
    \/ \E f \in TemplateFiles : RegisterFile(f)
    \/ PreInitDone
    \/ \E t \in Types : setFieldsOnGraphQLNodeType(t)
    \/ \E i \in NodeIds, fp \in FilePaths : resolve(i, fp)

SpecSession == InitSession /\ [][NextSession]_vars

TypeOK ==
    /\ knownFiles \subseteq Files
    /\ pc \in {"start", "scanning", "watching", "ready"}
    /\ pre \in {"start", "running", "done"}
    /\ pending \subseteq TemplateFiles

\* ------------------------------------------------------------- properties
QueuesEmpty == \A p \in Files : queue[p] = <<>>

OwnedBy(pgs, p) == {pg \in pgs : pg.component = componentPath(p)}

\* the step is the removed callback for p
RemovedStep(p) ==
    /\ queue[p] # <<>> /\ Head(queue[p]) = "removed"
    /\ queue'[p] = Tail(queue[p])

\* C1: once every emitted watch event has been handled, knownFiles is exactly
\* the set of files on disk that match the glob, whatever the order in which
\* the events of different paths were handled.
C1_KnownFilesMatchDisk ==
    (Watching /\ QueuesEmpty) => knownFiles = {f \in fs : pagesGlob(f)}

C1_Witness ==
    /\ Watching /\ QueuesEmpty
    /\ emitted >= 3
    /\ last.kind = "removed"
    /\ knownFiles # {} /\ knownFiles # Range(files)

\* C2: between two removed events of a path, createPage is called for it at
\* most once however many added events arrive: after an added event it has
\* been called exactly once, the call of the initial scan included, and an
\* added event for a path already in knownFiles calls it zero times.
C2_AddedCreatesOnce ==
    /\ \A p \in Files : creates[p] <= 1
    /\ last.kind = "added" => creates[last.path] = 1
    /\ (last.kind = "added" /\ last.known) => last.creates = 0

C2_Witness ==
    /\ last.kind = "added" /\ last.known /\ last.creates = 0
    /\ last.path \in Range(files)
    /\ creates[last.path] = 1

\* C3: the removed callback for a path that is not in knownFiles and owns no
\* page raises nothing, reports nothing, calls deletePage zero times and
\* leaves pages and knownFiles as they were; and whenever the removed
\* callback returns, its path is not in knownFiles, page found or not.
C3_RemovedUntracked ==
    [][\A p \in Files : RemovedStep(p) =>
          /\ (p \notin knownFiles /\ OwnedBy(pages, p) = {}) =>
                /\ pages' = pages
                /\ knownFiles' = knownFiles
                /\ panicked' = panicked /\ errors' = errors
                /\ last'.deletes = 0 /\ ~last'.raised
          /\ ~last'.raised => p \notin knownFiles']_vars

C3_Witness ==
    /\ last.kind = "removed" /\ ~last.known /\ ~last.raised
    /\ last.deletes = 0
    /\ OwnedBy(pages, last.path) = {}
    /\ last.path \notin knownFiles
    /\ ~panicked

\* C4: while the watcher runs, a path is in knownFiles if and only if some
\* page has it as its component.
C4_KnownIffPage ==
    Watching => \A p \in Files : p \in knownFiles <=> OwnedBy(pages, p) # {}

\* C5: the removed callback for p leaves every page of another component in
\* the page set exactly when it was there before, the pages at p's own route
\* included.
C5_RemovedFrame ==
    [][\A p \in Files : RemovedStep(p) =>
          \A pg \in pages \cup pages' :
              pg.component # componentPath(p) => (pg \in pages <=> pg \in pages')]_vars

C5_Witness ==
    /\ last.kind = "removed" /\ last.deletes >= 1 /\ ~last.raised
    /\ OwnedBy(pages, last.path) = {}
    /\ \E pg \in pages : /\ pg.path = createPath(last.path)
                         /\ pg.component.dir = PagesDirectory

NothingScanned ==
    /\ pc = "start"
    /\ globCalls = 0 /\ watchers = 0 /\ doneCalls = 0
    /\ \A p \in Files : creates[p] = 0
    /\ pages = {ForeignPage}
    /\ panicked => "1" \in errors

\* C7, as the claim has it: a missing path option or a path that is not on
\* disk ends the session with error 1 before any enumeration, createPage,
\* watcher or doneCb.
C7_AbortsWhenPathAbsent ==
    (~opts.path \/ ~opts.exists) => NothingScanned

\* C7, amended: the same, for a missing path option or, when pathCheck is
\* on, a path that is not on disk.
C7_AbortsWhenChecked ==
    (~opts.path \/ (opts.pathCheck /\ ~opts.exists)) => NothingScanned

C7_Witness ==
    /\ opts.path /\ opts.pathCheck /\ ~opts.exists
    /\ panicked /\ "1" \in errors
    /\ NothingScanned

WatchRaised == last.raised /\ last.kind \in {"added", "removed"}

\* C8: a watch callback that raises reports error 1 and ends the session:
\* from then on no createPage or deletePage call is made and knownFiles and
\* the pages do not change.
C8_RaiseEndsSession ==
    /\ [](WatchRaised => (panicked /\ "1" \in errors))
    /\ [][WatchRaised =>
            /\ pages' = pages /\ knownFiles' = knownFiles
            /\ creates' = creates /\ last' = last]_vars

C8_Witness ==
    /\ WatchRaised /\ last.kind = "removed"
    /\ panicked /\ "1" \in errors
    /\ ~QueuesEmpty

\* C10: after the removed callback for p has returned, no page has p as its
\* component, however many pages p owned and whatever their routes.
C10_NoPageOfRemoved ==
    (last.kind = "removed" /\ ~last.raised) => OwnedBy(pages, last.path) = {}

Registered(f) == \E k \in Keys : knownCollections[k] = f

\* C6: a template file whose query lacks the collection fragment is never a
\* value of knownCollections, and once its registration has run error 2 has
\* been reported.
C6_BadShapeNotRegistered ==
    \A f \in TemplateFiles : queries[f] = "badshape" =>
        /\ ~Registered(f)
        /\ (pre # "start" /\ f \notin pending) => "2" \in errors

C6_Witness ==
    \E f, g \in TemplateFiles :
        /\ queries[f] = "badshape" /\ pre = "done"
        /\ "2" \in errors
        /\ Registered(g)

NoCallbackYet == \A p \in Files : prev[p] = "none"

\* C11: the initial scan runs once and to its end before anything else:
\* while it runs no watch callback has been handled, doneCb has not been
\* called and knownFiles is empty; once the watcher is started createPage has
\* been called for every enumerated file, and until the first callback runs
\* knownFiles is exactly the enumeration; doneCb is called at most once.
C11_ScanBeforeWatch ==
    /\ globCalls <= 1 /\ watchers <= 1 /\ doneCalls <= 1
    /\ pc \in {"start", "scanning"} =>
          (NoCallbackYet /\ doneCalls = 0 /\ watchers = 0 /\ knownFiles = {})
    /\ pc \in {"watching", "ready"} =>
          (scanned = Len(files) /\ watchers = 1)
    /\ (pc \in {"watching", "ready"} /\ NoCallbackYet) =>
          /\ knownFiles = Range(files)
          /\ \A f \in Range(files) : creates[f] = 1 /\ OwnedBy(pages, f) # {}
    /\ doneCalls = 1 => pc = "ready"

C11_Witness ==
    /\ doneCalls = 1 /\ Len(files) >= 2
    /\ ~NoCallbackYet
    /\ Range(files) \subseteq knownFiles

\* the step is a watch callback for p
HandlerStep(p) == queue[p] # <<>> /\ queue'[p] = Tail(queue[p])

Processed(f) == pre # "start" /\ f \notin pending

KeyOf(f) == collectionQuery(ModelOf(f))

\* C13, as the claim has it: whatever goes wrong with one template file, the
\* scan is not aborted and ends with every file that has a valid query
\* registered under its key.
C13_FailureIsLocal ==
    \A f \in TemplateFiles : (Processed(f) /\ queries[f] # "valid") =>
        /\ ~panicked
        /\ pre = "done" =>
              \A g \in TemplateFiles : queries[g] = "valid" =>
                  queries[knownCollections[KeyOf(g)]] = "valid"

\* C13, amended: a file that yields no query (none, or one rejected with
\* error 2) only stays unregistered and the scan goes on to register the
\* files with a valid query; a failure raised while a file is processed is
\* reported as error 1 and ends the scan before onPreInit returns.
C13_OnlyRaisedFailureAborts ==
    /\ (\A f \in TemplateFiles : Processed(f) => queries[f] # "throws") =>
          /\ ~panicked /\ "1" \notin errors
          /\ \A g \in TemplateFiles : (Processed(g) /\ queries[g] = "valid") =>
                 /\ knownCollections[KeyOf(g)] # NoFile
                 /\ queries[knownCollections[KeyOf(g)]] = "valid"
    /\ (\E f \in TemplateFiles : Processed(f) /\ queries[f] = "throws") =>
          (panicked /\ "1" \in errors /\ pre # "done")

C13_Witness ==
    \E f, g \in TemplateFiles :
        /\ queries[f] = "badshape" /\ queries[g] = "valid"
        /\ pre = "done" /\ ~panicked
        /\ regLog = <<g>> /\ knownCollections[KeyOf(g)] = g

\* the file whose knownCollections.set for key k ran last
RECURSIVE LastRegistered(_, _)
LastRegistered(log, k) ==
    IF log = <<>> THEN NoFile
    ELSE IF KeyOf(log[Len(log)]) = k THEN log[Len(log)]
    ELSE LastRegistered(SubSeq(log, 1, Len(log) - 1), k)

\* C14: knownCollections holds for every key the one file whose registration
\* under that key completed last, and when every template file has a valid
\* query, two of them under one key included, no error is reported.
C14_LastWriteWins ==
    /\ \A k \in Keys : knownCollections[k] = LastRegistered(regLog, k)
    /\ (\A f \in TemplateFiles : queries[f] = "valid") =>
          (~panicked /\ errors = {})

C14_Witness ==
    /\ regLog = <<"{Post.slug}.js", "{Post.title}.js">>
    /\ knownCollections["allPost"] = "{Post.title}.js"
    /\ pre = "done" /\ errors = {} /\ ~panicked

\* C16: a resolution calls getNode at most once, and exactly when the parent
\* of the source record is a string identifier; a record whose parent is
\* absent or a realized record reaches derivePath with that same parent.
C16_ParentLookup ==
    resolved.at > 0 =>
        /\ resolved.lookups <= 1
        /\ resolved.lookups = 1 <=> resolved.before.kind = "id"
        /\ resolved.before.kind # "id" => resolved.passed = resolved.before
        /\ resolved.before.kind = "id" =>
              resolved.passed.kind \in {"node", "undefined"}

C16_Witness ==
    /\ resolved.at > 0 /\ resolved.before.kind = "node"
    /\ resolved.lookups = 0
    /\ resolved.derived /\ resolved.ok
    /\ resolved.passed = resolved.before

\* C17: a setFieldsOnGraphQLNodeType call for type T returns the gatsbyPath
\* field if and only if, when it is called, some template file has been
\* registered under the key all + T; otherwise it returns no field.
C17_FieldIffRegistered ==
    [][fieldsCall' # fieldsCall =>
          LET t == fieldsCall'.type IN
          /\ fieldsCall'.gatsbyPath <=>
                \E n \in 1..Len(regLog) : KeyOf(regLog[n]) = collectionQuery(t)
          /\ exposed'[t] = fieldsCall'.gatsbyPath]_vars

C17_Witness ==
    /\ fieldsCall.type = "Author" /\ ~fieldsCall.gatsbyPath
    /\ exposed["Post"] /\ ~exposed["Author"]
    /\ regLog # <<>>

\* C20: every resolution runs validatePathQuery, and derivePath only after
\* it has passed; a file path that fails validation makes that resolution
\* fail without a route, and the failure reports nothing, ends nothing and
\* leaves the exposed fields as they were for the resolutions that follow.
C20_ValidateBeforeDerive ==
    /\ [](resolved.at > 0 =>
            /\ resolved.validated
            /\ resolved.derived <=> validatePathQuery(resolved.file)
            /\ ~validatePathQuery(resolved.file) =>
                  /\ ~resolved.ok /\ resolved.route = <<>>
                  /\ resolved.error = "validatePathQuery")
    /\ [][resolved' # resolved =>
            /\ panicked' = panicked /\ errors' = errors
            /\ exposed' = exposed]_vars

C20_Witness ==
    /\ resolved.at >= 2 /\ resolved.ok /\ resolved.derived
    /\ \E a \in seen : ~validatePathQuery(a.file) /\ ~a.out.ok

\* the step belongs to the startup template scan
PreInitStep == pre' # pre \/ pending' # pending

\* C15: knownCollections changes only in a registration step of the startup
\* template scan, never once onPreInit has returned, whichever of
\* setFieldsOnGraphQLNodeType, gatsbyPath, the initial page scan or the watch
\* callbacks runs; and no step of the template scan changes knownFiles or
\* the pages.
C15_RegistryWrittenByScanOnly ==
    [][/\ pre = "done" => knownCollections' = knownCollections
       /\ knownCollections' # knownCollections =>
             (pre = "running" /\ pending' # pending)
       /\ PreInitStep => (knownFiles' = knownFiles /\ pages' = pages)]_vars

C15_Witness ==
    /\ pre = "done" /\ regLog # <<>>
    /\ resolved.at > 0 /\ fieldsCall.type # ""
    /\ pc = "ready" /\ scanned > 0
    /\ last.kind = "removed" /\ ~NoCallbackYet
    /\ knownCollections["allPost"] = "{Post.slug}.js"

AddFailed == last.kind = "added" /\ last.raised

\* C18, as the claim has it: after createPage has failed in the added
\* callback for p, p is not in knownFiles and a further added event for p is
\* handled by the callback, which calls createPage again.
C18_LaterAddCreatesAgain ==
    AddFailed =>
        /\ last.path \notin knownFiles
        /\ (queue[last.path] # <<>> /\ Head(queue[last.path]) = "added") =>
              ENABLED AddedHandler(last.path)

\* C18, amended: after createPage has failed in the added callback for p, p
\* is not in knownFiles, error 1 has been reported and the session is over:
\* no further event is handled and createPage is not called again.
C18_FailedAddNotKnown ==
    /\ [](AddFailed =>
            /\ last.path \notin knownFiles
            /\ last.creates = 1
            /\ panicked /\ "1" \in errors)
    /\ [][AddFailed =>
            /\ creates' = creates /\ knownFiles' = knownFiles
            /\ \A p \in Files : ~HandlerStep(p)]_vars

C18_Witness ==
    /\ AddFailed /\ last.path \notin knownFiles
    /\ queue[last.path] # <<>> /\ Head(queue[last.path]) = "added"
    /\ panicked

\* the enumeration or a createPage call of the initial scan has failed
ScanFailed ==
    \/ pc = "start" /\ globCalls = 1 /\ panicked
    \/ last.kind = "scan" /\ last.raised

\* C19: once the enumeration or a createPage call of the initial scan has
\* failed, the files after the failing one get no createPage call and no
\* page, the watcher is not started and doneCb is not called, then or later;
\* doneCb is only called with the watcher set up, and a session in which
\* nothing fails comes to call it.
C19_ScanFailureStopsStartup ==
    /\ [](ScanFailed =>
            /\ watchers = 0 /\ doneCalls = 0 /\ knownFiles = {}
            /\ \A n \in (scanned + 1)..Len(files) :
                  creates[files[n]] = 0 /\ OwnedBy(pages, files[n]) = {})
    /\ [][ScanFailed =>
            /\ scanned' = scanned /\ pages' = pages /\ creates' = creates
            /\ watchers' = watchers /\ doneCalls' = doneCalls]_vars
    /\ [](doneCalls = 1 => watchers = 1)
    /\ <>(panicked \/ doneCalls = 1)

C19_Witness ==
    /\ last.kind = "scan" /\ last.raised
    /\ 0 < scanned /\ scanned < Len(files)
    /\ pc = "scanning" /\ watchers = 0 /\ doneCalls = 0
====
